---- MODULE Spec2Model ----
(***************************************************************************)
(* Execution planner (akhodier/execution-planner): the planning engine of  *)
(* src/src/App.tsx -- timeSlices, the weight curves, applyCap and          *)
(* buildPlan -- as a state machine.  buildPlan is modelled statement by    *)
(* statement: one action for the set-up, one per loop iteration, one per   *)
(* branch of the over-allocation handling.                                 *)
(*                                                                         *)
(* src/src/App.tsx holds several successive copies of the engine; the      *)
(* model follows the first one (lines 109-332).  Where another copy        *)
(* differs, the comment at the definition says so.                         *)
(*                                                                         *)
(* Numbers.  The order's quantities, volumes and percentages are integers  *)
(* (the UI reads them through parseIntSafe).  The weights are the          *)
(* rationals the code computes in floating point; a weight is kept as a    *)
(* numerator over a common denominator and Math.floor(w * x) is the        *)
(* integer quotient (num * x) \div den.  In IEEE doubles the two agree     *)
(* unless w * x is a whole number k, where the code may get k - 1 (first   *)
(* at ucurve, 3 slices, x = 65); no quantity within the bounds below is    *)
(* such a case.                                                            *)
(*                                                                         *)
(* Times.  A time of day "HH:MM" is the record [h, m] of the two numbers   *)
(* the code parses out of the string; minutesBetween and addMinutes do     *)
(* the arithmetic the code does on them, including the % 24 wrap.          *)
(*                                                                         *)
(* Monitoring.  Beside the planning engine the module has the functions    *)
(* that read a plan or an order during the session: the weight curves on   *)
(* their own, accumulatedSuggested and the pacing class of PlannerCard,    *)
(* performanceBps with impliedMarketVWAP, and the impact score of advise.  *)
(* Each has a specification of its own (SpecWeights, SpecPace, SpecClass,  *)
(* SpecPerf, SpecAdvise); a comparison of "HH:MM" strings is the           *)
(* comparison of hours, then minutes.                                      *)
(***************************************************************************)
EXTENDS Integers, Sequences, FiniteSets, TLC

VARIABLES
    order,                \* the Order handed to buildPlan
    pc,                   \* position inside buildPlan
    slices,               \* timeSlices(...) result
    contVolPerSlice,      \* weights.map(w => floor(w * expectedContVol))
    reserveAuctionQty,
    auctionAllowed,
    targetContinuousQty,  \* OTD only (0 in INLINE, where the code has no such local)
    remaining,            \* OTD loop local
    base,                 \* loop local: the pre-cap quantity of the row just built
    i,                    \* loop index (0-based, as in the code)
    rows,                 \* BuiltRow[]
    contPlanned,
    auctionPlanned,
    totalPlanned,         \* INLINE local
    excess,               \* INLINE local
    wArg,                 \* the arguments of a call of the weight curve: [curve, n]
    wRaw,                 \* uCurveWeights' local w, before normalisation
    weights,              \* the weights returned, each a rational [num, den]
    now,                  \* the clock sample "HH:MM" handed to accumulatedSuggested
    acc,                  \* accumulatedSuggested's result (PlannerCard's accSuggested)
    paceClass,            \* PlannerCard's paceClass
    live,                 \* the Order's fields that buildPlan never reads
    marketVWAP,           \* PlannerCard's marketVWAP, a rational
    orderVWAP,            \* PlannerCard's orderVWAP, a rational
    perf,                 \* performanceBps' result, a rational
    advice,               \* advise's locals and result
    coach,                \* the results of two calls of coachTips on the same order and plan
    closeTimes,           \* the Order's auctionEnd and talEnd
    phase                 \* getPhase's result

\* the variables of the monitoring side: weights on their own, pacing, performance, advice
evalVars == <<wArg, wRaw, weights, now, acc, paceClass, live, marketVWAP, orderVWAP, perf, advice,
              coach, closeTimes, phase>>

vars == <<order, pc, slices, contVolPerSlice, reserveAuctionQty, auctionAllowed,
          targetContinuousQty, remaining, base, i, rows, contPlanned,
          auctionPlanned, totalPlanned, excess, wArg, wRaw, weights, now, acc,
          paceClass, live, marketVWAP, orderVWAP, perf, advice, coach, closeTimes, phase>>

(***************************************************************************)
(* Bounds of the model                                                     *)
(***************************************************************************)
MaxQty == 6
MaxVol == 8
MaxWindow == 4
MaxStep == 2
MaxSlices == 12
MaxAcc == 40
MaxPx == 3
MaxAdviseQty == 23

\* maxAllowed: "∞" when there is no cap
Unbounded == -1

(***************************************************************************)
(* Arithmetic helpers                                                      *)
(***************************************************************************)
Min(a, b) == IF a <= b THEN a ELSE b
Max(a, b) == IF a >= b THEN a ELSE b
Abs(a) == IF a < 0 THEN -a ELSE a

\* Math.ceil(a / b) for b > 0
CeilDiv(a, b) == IF a >= 0 THEN (a + b - 1) \div b ELSE -((-a) \div b)

\* Math.floor(a / b) for b > 0
FloorDiv(a, b) == IF a >= 0 THEN a \div b ELSE -(((-a) + b - 1) \div b)

\* the JavaScript remainder a % b for b > 0 (sign of the dividend)
JsRem(a, b) == IF a >= 0 THEN a % b ELSE -((-a) % b)

RECURSIVE SumTo(_, _)
SumTo(f, n) == IF n = 0 THEN 0 ELSE f[n] + SumTo(f, n - 1)

(***************************************************************************)
(* Utilities: minutesBetween, addMinutes                                   *)
(***************************************************************************)
Time(hh, mm) == [h |-> hh, m |-> mm]

minutesBetween(t1, t2) == (t2.h * 60 + t2.m) - (t1.h * 60 + t1.m)

addMinutes(t, mins) ==
    LET total == t.h * 60 + t.m + mins
        hh == JsRem(FloorDiv(total, 60), 24)
        mm == JsRem(JsRem(total, 60) + 60, 60)
    IN  Time(hh, mm)

(***************************************************************************)
(* timeSlices.  Slice k of the sequence is the code's out[k-1].            *)
(***************************************************************************)
\* variant: the slice count without its floor of one
sliceCount_noFloor(start, end, step) ==
    LET total == Max(0, minutesBetween(start, end))
    IN  CeilDiv(total, step)

sliceCount(start, end, step) ==
    LET total == Max(0, minutesBetween(start, end))
    IN  Max(1, CeilDiv(total, step))

\* variant: the last slice ends a whole step after its start
sliceEnd_unclamped(start, end, step, n, k) == addMinutes(start, (k + 1) * step)

sliceEnd(start, end, step, n, k) ==
    IF k = n - 1 THEN end ELSE addMinutes(start, (k + 1) * step)

\* variant: the slice length without its floor of zero
sliceMins_signed(s, e) == minutesBetween(s, e)

\* line 141; the copies of timeSlices at lines 1362, 1739 and 3040 keep no mins
sliceMins(s, e) == Max(0, minutesBetween(s, e))

timeSlices(start, end, step) ==
    LET n == sliceCount(start, end, step)
    IN  [k \in 1..n |->
            LET s == addMinutes(start, (k - 1) * step)
                e == sliceEnd(start, end, step, n, k - 1)
            IN  [s |-> s, e |-> e, mins |-> sliceMins(s, e)]]

(***************************************************************************)
(* Weight curves.  weights[k] = WNum(curve, n, k) / WDen(curve, n).        *)
(* uCurveWeights: mid = (n-1)/2, x = |i-mid| / (mid || 1),                 *)
(* w = 0.6 + 0.8 * (1 - x); times 10*(n-1) (times 10 when n = 1) this is   *)
(* the integer 14*(n-1) - 8*|2i - (n-1)| (14 when n = 1).                  *)
(***************************************************************************)
uCurveRaw_edgeHeavy(n, k) ==
    IF n = 1 THEN 14 ELSE 6 * (n - 1) + 8 * Abs(2 * k - (n - 1))

uCurveRaw(n, k) ==
    IF n = 1 THEN 14 ELSE 14 * (n - 1) - 8 * Abs(2 * k - (n - 1))

uCurveSum(n) == SumTo([k \in 1..n |-> uCurveRaw(n, k - 1)], n)

WNum(curve, n, k) == IF curve = "equal" THEN 1 ELSE uCurveRaw(n, k - 1)
WDen(curve, n) == IF curve = "equal" THEN n ELSE uCurveSum(n)

\* Math.floor(weights[k] * x)
FloorW(curve, n, k, x) == (WNum(curve, n, k) * x) \div WDen(curve, n)

(***************************************************************************)
(* applyCap                                                                *)
(***************************************************************************)
capAllowed(maxPart, sliceVol) == FloorDiv(sliceVol * maxPart, 100)

\* variant: the cap is not applied
applyCap_uncapped(capMode, maxPart, qty, sliceVol) == Max(0, qty)

\* variant: a slice without expected volume is left uncapped
applyCap_zeroVolUncapped(capMode, maxPart, qty, sliceVol) ==
    IF capMode = "NONE" \/ sliceVol = 0 THEN Max(0, qty)
    ELSE Max(0, Min(qty, capAllowed(maxPart, sliceVol)))

applyCap(capMode, maxPart, qty, sliceVol) ==
    IF capMode = "NONE" THEN Max(0, qty)
    ELSE Max(0, Min(qty, capAllowed(maxPart, sliceVol)))

rowMaxAllowed(capMode, maxPart, sliceVol) ==
    IF capMode = "PCT" THEN capAllowed(maxPart, sliceVol) ELSE Unbounded

(***************************************************************************)
(* buildPlan: the quantities computed before the loops                     *)
(***************************************************************************)
reserveQty(o) == FloorDiv(o.orderQty * Max(0, o.reserveAuctionPct), 100)

auctionAllowedOf(o) ==
    IF o.capMode = "PCT" THEN FloorDiv(o.expectedAuctionVol * o.maxPart, 100)
    ELSE o.expectedAuctionVol

\* variant: the slices are built against the whole order
targetQty_noReserve(o) == o.orderQty

targetQty(o) == Max(0, o.orderQty - reserveQty(o))

\* Math.ceil(targetContinuousQty * 0.05)
keepBackOf(target) == CeilDiv(target * 5, 100)

\* pov = expectedTotalVol > 0 ? min(1, orderQty / expectedTotalVol) : 0, as povNum/povDen
expectedTotalVol(o) == o.currentVol + o.expectedContVol + o.expectedAuctionVol
povNum_unclamped(o) == IF expectedTotalVol(o) > 0 THEN o.orderQty ELSE 0

povNum(o) ==
    IF expectedTotalVol(o) > 0 THEN Min(o.orderQty, expectedTotalVol(o)) ELSE 0
povDen(o) == IF expectedTotalVol(o) > 0 THEN expectedTotalVol(o) ELSE 1

inlineAuction(o) ==
    IF o.capMode = "PCT"
    THEN FloorDiv(o.expectedAuctionVol * povNum(o) * o.maxPart, povDen(o) * 100)
    ELSE FloorDiv(o.expectedAuctionVol * povNum(o), povDen(o))

\* variant: the auction leg is not bounded by the auction capacity
otdAuction_uncapped(reserve, target, cont, allowed) == reserve + Max(0, target - cont)

\* variant: the continuous shortfall is not rolled into the auction leg
otdAuction_reserveOnly(reserve, target, cont, allowed) == Min(reserve, allowed)

\* line 285; the copy of buildPlan at line 1925 has Math.min(reserveAuctionQty, auctionAllowed)
otdAuction(reserve, target, cont, allowed) ==
    Min(reserve + Max(0, target - cont), allowed)

sumSuggested(rs) == SumTo([k \in 1..Len(rs) |-> rs[k].suggestedQty], Len(rs))

\* the sum of suggestedQty of the first k rows
SumFirst(rs, k) == SumTo([j \in 1..Len(rs) |-> rs[j].suggestedQty], k)

(***************************************************************************)
(* Inputs                                                                  *)
(***************************************************************************)
\* the time of day "HH:MM" that is min minutes after midnight
TimeOf(min) == Time(min \div 60, min % 60)

StartMinutes == {0, 598, 599, 720, 1430}
PlanStarts == {598}
PctSet == {0, 50, 100, 200, 250}
ReserveSet == {0, 25, 50, 150}
VolSet == {0, MaxVol \div 2, MaxVol}

Window(st, d, step) ==
    [sessionStart |-> TimeOf(st), sessionEnd |-> TimeOf(st + d), intervalMins |-> step]

\* windows handed to timeSlices alone: end before, at and after start
Windows ==
    UNION {{Window(st, d, step) : d \in {x \in (-2)..MaxWindow : st + x >= 0}, step \in 1..MaxStep} :
            st \in StartMinutes}

\* windows of the orders handed to buildPlan
PlanWindows ==
    {Window(st, d, step) : st \in PlanStarts, d \in (-1)..MaxWindow, step \in 1..MaxStep}

mkOrder(w, qty, em, cm, mp, rp, dc, cv, cur, ecv, eav) ==
    [orderQty |-> qty, execMode |-> em, capMode |-> cm, maxPart |-> mp,
     reserveAuctionPct |-> rp, deferCompletion |-> dc,
     sessionStart |-> w.sessionStart, sessionEnd |-> w.sessionEnd,
     intervalMins |-> w.intervalMins, curve |-> cv,
     currentVol |-> cur, expectedContVol |-> ecv, expectedAuctionVol |-> eav]

\* Orders handed to buildPlan.  Fields a branch never reads are held at one
\* value: currentVol in OTD, reserveAuctionPct in INLINE, maxPart without a cap.
CapCombos == {<<"NONE", 100>>} \cup {<<"PCT", mp>> : mp \in PctSet}

OtdOrders ==
    {mkOrder(w, qty, "OTD", cc[1], cc[2], rp, dc, cv, 0, ecv, eav) :
        w \in PlanWindows, qty \in 0..MaxQty, cc \in CapCombos, rp \in ReserveSet,
        dc \in BOOLEAN, cv \in {"equal", "ucurve"}, ecv \in VolSet, eav \in VolSet}

InlineOrders ==
    {mkOrder(w, qty, "INLINE", cc[1], cc[2], 0, dc, cv, cur, ecv, eav) :
        w \in PlanWindows, qty \in 0..MaxQty, cc \in CapCombos,
        dc \in BOOLEAN, cv \in {"equal", "ucurve"},
        cur \in {0, MaxVol \div 2}, ecv \in VolSet, eav \in VolSet}

Orders == OtdOrders \cup InlineOrders

\* Orders handed to timeSlices alone: only the window matters
SliceOrders ==
    {mkOrder(w, MaxQty, "OTD", "PCT", 50, 25, TRUE, "ucurve", 0, MaxVol, MaxVol) : w \in Windows}

(***************************************************************************)
(* State machine                                                           *)
(***************************************************************************)
Blank(o, p) ==
    /\ order = o
    /\ pc = p
    /\ slices = <<>>
    /\ contVolPerSlice = <<>>
    /\ reserveAuctionQty = 0
    /\ auctionAllowed = 0
    /\ targetContinuousQty = 0
    /\ remaining = 0
    /\ base = 0
    /\ i = 0
    /\ rows = <<>>
    /\ contPlanned = 0
    /\ auctionPlanned = 0
    /\ totalPlanned = 0
    /\ excess = 0

\* a rational number num / den, den > 0
Rat(n, d) == [num |-> n, den |-> d]
Zero == Rat(0, 1)

\* the order's monitoring fields as defaultOrder has them (lines 1029-1053, zeroed)
NoLive ==
    [side |-> "BUY", startVol |-> 0, marketTurnover |-> 0, marketVWAPInput |-> 0,
     orderExecQty |-> 0, orderExecNotional |-> 0]

NoAdvice ==
    [shouldAccum |-> 0, pacingDelta |-> 0, nextClip |-> 0, remainingOrder |-> 0,
     expRemainingVol |-> 1, requiredPOV |-> Zero, impactScore |-> 0, action |-> "none"]

\* no call of coachTips yet
NoCoach == [calls |-> 0, first |-> <<>>, second |-> <<>>]

\* auctionEnd and talEnd of the Qatar preset, lines 1040-1042
NoClose == [auctionEnd |-> Time(13, 10), talEnd |-> Time(13, 15)]

IdleClose ==
    /\ coach = NoCoach
    /\ closeTimes = NoClose
    /\ phase = "none"

\* nothing evaluated yet
IdleWeights ==
    /\ wArg = [curve |-> "equal", n |-> 0]
    /\ wRaw = <<>>
    /\ weights = <<>>

IdlePace ==
    /\ now = Time(0, 0)
    /\ acc = 0
    /\ paceClass = "none"

IdlePerf ==
    /\ marketVWAP = Zero
    /\ orderVWAP = Zero
    /\ perf = Zero

Idle ==
    /\ IdleWeights
    /\ IdlePace
    /\ live = NoLive
    /\ IdlePerf
    /\ advice = NoAdvice
    /\ IdleClose

Init == \E o \in Orders : Blank(o, "call") /\ Idle

\* buildPlan, lines 242-254 and 291: everything before the loops
Setup ==
    /\ UNCHANGED evalVars
    /\ pc = "call"
    /\ slices' = timeSlices(order.sessionStart, order.sessionEnd, order.intervalMins)
    /\ contVolPerSlice' =
          [k \in 1..Len(slices') |-> FloorW(order.curve, Len(slices'), k, order.expectedContVol)]
    /\ reserveAuctionQty' = reserveQty(order)
    /\ auctionAllowed' = auctionAllowedOf(order)
    /\ rows' = <<>>
    /\ i' = 0
    /\ IF order.execMode = "OTD"
       THEN /\ targetContinuousQty' = targetQty(order)
            /\ remaining' = targetQty(order)
            /\ pc' = "otd"
       ELSE /\ UNCHANGED <<targetContinuousQty, remaining>>
            /\ pc' = "inline"
    /\ UNCHANGED <<order, base, contPlanned, auctionPlanned, totalPlanned, excess>>

\* the row pushed by either loop
mkRow(sl, sliceVol, suggested) ==
    [s |-> sl.s, e |-> sl.e, mins |-> sl.mins, expMktVol |-> sliceVol,
     maxAllowed |-> rowMaxAllowed(order.capMode, order.maxPart, sliceVol),
     suggestedQty |-> suggested]

keepBackAdjust_always(suggested, rem, target, isLast) ==
    IF order.deferCompletion /\ ~isLast THEN Max(0, rem - keepBackOf(target)) ELSE suggested

keepBackAdjust_takeAll(suggested, rem, target, isLast) ==
    IF order.deferCompletion /\ ~isLast THEN rem ELSE suggested

\* the keep-back adjustment of a non-last OTD slice, lines 263-267
keepBackAdjust(suggested, rem, target, isLast) ==
    IF order.deferCompletion /\ ~isLast /\ rem - suggested <= 0
    THEN Max(0, rem - keepBackOf(target))
    ELSE suggested

\* one iteration of the OTD loop, lines 256-281
OtdSlice ==
    /\ UNCHANGED evalVars
    /\ pc = "otd"
    /\ i < Len(slices)
    /\ LET sl == slices[i + 1]
           sliceVol == Max(0, contVolPerSlice[i + 1])
           b == Min(FloorW(order.curve, Len(slices), i + 1, targetContinuousQty), remaining)
           capped == applyCap(order.capMode, order.maxPart, b, sliceVol)
           isLast == (i = Len(slices) - 1)
           kept == keepBackAdjust(capped, remaining, targetContinuousQty, isLast)
           suggested == Min(kept, remaining)
       IN  /\ base' = b
           /\ remaining' = remaining - suggested
           /\ rows' = Append(rows, mkRow(sl, sliceVol, suggested))
    /\ i' = i + 1
    /\ UNCHANGED <<order, pc, slices, contVolPerSlice, reserveAuctionQty, auctionAllowed,
                   targetContinuousQty, contPlanned, auctionPlanned, totalPlanned, excess>>

\* lines 283-287: totals and return of the OTD branch
OtdReturn ==
    /\ UNCHANGED evalVars
    /\ pc = "otd"
    /\ i = Len(slices)
    /\ contPlanned' = sumSuggested(rows)
    /\ auctionPlanned' =
          otdAuction(reserveAuctionQty, targetContinuousQty, sumSuggested(rows), auctionAllowed)
    /\ pc' = "done"
    /\ UNCHANGED <<order, slices, contVolPerSlice, reserveAuctionQty, auctionAllowed,
                   targetContinuousQty, remaining, base, i, rows, totalPlanned, excess>>

\* one iteration of the INLINE loop, lines 294-308
InlineSlice ==
    /\ UNCHANGED evalVars
    /\ pc = "inline"
    /\ i < Len(slices)
    /\ LET sl == slices[i + 1]
           sliceVol == Max(0, contVolPerSlice[i + 1])
           b == FloorDiv(sliceVol * povNum(order), povDen(order))
           suggested == applyCap(order.capMode, order.maxPart, b, sliceVol)
       IN  /\ base' = b
           /\ rows' = Append(rows, mkRow(sl, sliceVol, suggested))
    /\ i' = i + 1
    /\ UNCHANGED <<order, pc, slices, contVolPerSlice, reserveAuctionQty, auctionAllowed,
                   targetContinuousQty, remaining, contPlanned, auctionPlanned,
                   totalPlanned, excess>>

shaveOf_none(auction, ex) == auction

\* the auction shave: Math.max(0, auctionPlanned - excess), line 327
shaveOf(auction, ex) == Max(0, auction - ex)

\* lines 310-320 and 326-328: totals, the over-allocation test, the auction shave
InlineTotals ==
    /\ UNCHANGED evalVars
    /\ pc = "inline"
    /\ i = Len(slices)
    /\ contPlanned' = sumSuggested(rows)
    /\ totalPlanned' = sumSuggested(rows) + inlineAuction(order)
    /\ IF totalPlanned' > order.orderQty
       THEN /\ excess' = totalPlanned' - order.orderQty
            /\ IF order.deferCompletion
               THEN /\ auctionPlanned' = inlineAuction(order)
                    /\ i' = Len(rows) - 1
                    /\ pc' = "trim"
               ELSE /\ auctionPlanned' = shaveOf(inlineAuction(order), excess')
                    /\ i' = i
                    /\ pc' = "done"
       ELSE /\ auctionPlanned' = inlineAuction(order)
            /\ UNCHANGED <<excess, i>>
            /\ pc' = "done"
    /\ UNCHANGED <<order, slices, contVolPerSlice, reserveAuctionQty, auctionAllowed,
                   targetContinuousQty, remaining, base, rows>>

\* the trim of one row: trim = Math.min(excess, rows[i].suggestedQty), line 322
trimOf(ex, row) == Min(ex, row.suggestedQty)

\* one iteration of the tail-trim loop, lines 321-325
TrimRow ==
    /\ UNCHANGED evalVars
    /\ pc = "trim"
    /\ i >= 0
    /\ totalPlanned > order.orderQty
    /\ LET trim == trimOf(excess, rows[i + 1])
       IN  /\ rows' = [rows EXCEPT ![i + 1].suggestedQty = @ - trim]
           /\ totalPlanned' = totalPlanned - trim
    /\ i' = i - 1
    /\ UNCHANGED <<order, pc, slices, contVolPerSlice, reserveAuctionQty, auctionAllowed,
                   targetContinuousQty, remaining, base, contPlanned, auctionPlanned, excess>>

\* the trim loop's exit and the return, lines 321 and 331
TrimReturn ==
    /\ UNCHANGED evalVars
    /\ pc = "trim"
    /\ ~(i >= 0 /\ totalPlanned > order.orderQty)
    /\ pc' = "done"
    /\ UNCHANGED <<order, slices, contVolPerSlice, reserveAuctionQty, auctionAllowed,
                   targetContinuousQty, remaining, base, i, rows, contPlanned,
                   auctionPlanned, totalPlanned, excess>>

Next == Setup \/ OtdSlice \/ OtdReturn \/ InlineSlice \/ InlineTotals \/ TrimRow \/ TrimReturn

Spec == Init /\ [][Next]_vars

(***************************************************************************)
(* timeSlices on its own, over a wider set of windows                      *)
(***************************************************************************)
InitSlice == \E o \in SliceOrders : Blank(o, "slice") /\ Idle

\* timeSlices, lines 134-144
CallTimeSlices ==
    /\ UNCHANGED evalVars
    /\ pc = "slice"
    /\ slices' = timeSlices(order.sessionStart, order.sessionEnd, order.intervalMins)
    /\ pc' = "sliced"
    /\ UNCHANGED <<order, contVolPerSlice, reserveAuctionQty, auctionAllowed,
                   targetContinuousQty, remaining, base, i, rows, contPlanned,
                   auctionPlanned, totalPlanned, excess>>

NextSlice == CallTimeSlices

SpecSlice == InitSlice /\ [][NextSlice]_vars

(***************************************************************************)
(* The weight curves on their own: equalWeights and uCurveWeights called   *)
(* with every slice count up to MaxSlices.  uCurveWeights is modelled      *)
(* statement by statement: the loop pushes the raw weights, the return     *)
(* divides each by their sum.  The raw weights are kept times              *)
(* uCurveScale(n), which makes them integers.                              *)
(***************************************************************************)
\* the order of the specifications that do not plan
QuietOrder ==
    mkOrder(Window(598, MaxWindow, 1), MaxQty, "OTD", "NONE", 100, 0, FALSE, "equal",
            0, MaxVol, MaxVol)

InitWeights ==
    /\ Blank(QuietOrder, "weights")
    /\ \E cv \in {"equal", "ucurve"}, n \in 0..MaxSlices : wArg = [curve |-> cv, n |-> n]
    /\ wRaw = <<>>
    /\ weights = <<>>
    /\ IdlePace
    /\ live = NoLive
    /\ IdlePerf
    /\ advice = NoAdvice
    /\ IdleClose

\* the factor that makes the raw weights integers: 10 * (mid || 1) * 2, halved when mid = 0
uCurveScale(n) == IF n = 1 THEN 10 ELSE 10 * (n - 1)

normSum_dropLast(ws, scale) == SumTo(ws, Len(ws) - 1) + scale

\* line 153: const sum = w.reduce((a, b) => a + b, 0) || 1
normSum(ws, scale) ==
    LET sum == SumTo(ws, Len(ws)) IN IF sum = 0 THEN scale ELSE sum

\* equalWeights, lines 156-159
EqualWeights ==
    /\ UNCHANGED <<coach, closeTimes, phase>>
    /\ pc = "weights"
    /\ wArg.curve = "equal"
    /\ weights' = IF wArg.n <= 0 THEN <<>> ELSE [k \in 1..wArg.n |-> Rat(1, wArg.n)]
    /\ pc' = "weighted"
    /\ UNCHANGED <<order, slices, contVolPerSlice, reserveAuctionQty, auctionAllowed,
                   targetContinuousQty, remaining, base, i, rows, contPlanned,
                   auctionPlanned, totalPlanned, excess>>
    /\ UNCHANGED <<wArg, wRaw, now, acc, paceClass, live, marketVWAP, orderVWAP, perf, advice>>

\* uCurveWeights, lines 149-152: one iteration of the loop
UCurvePush ==
    /\ UNCHANGED <<coach, closeTimes, phase>>
    /\ pc = "weights"
    /\ wArg.curve = "ucurve"
    /\ wArg.n > 0
    /\ Len(wRaw) < wArg.n
    /\ wRaw' = Append(wRaw, uCurveRaw(wArg.n, Len(wRaw)))
    /\ UNCHANGED <<order, pc, slices, contVolPerSlice, reserveAuctionQty, auctionAllowed,
                   targetContinuousQty, remaining, base, i, rows, contPlanned,
                   auctionPlanned, totalPlanned, excess>>
    /\ UNCHANGED <<wArg, weights, now, acc, paceClass, live, marketVWAP, orderVWAP, perf, advice>>

\* uCurveWeights, lines 146 and 153-154: the early return and the normalisation
UCurveReturn ==
    /\ UNCHANGED <<coach, closeTimes, phase>>
    /\ pc = "weights"
    /\ wArg.curve = "ucurve"
    /\ wArg.n <= 0 \/ Len(wRaw) = wArg.n
    /\ weights' = IF wArg.n <= 0 THEN <<>>
                  ELSE [k \in 1..Len(wRaw) |-> Rat(wRaw[k], normSum(wRaw, uCurveScale(wArg.n)))]
    /\ pc' = "weighted"
    /\ UNCHANGED <<order, slices, contVolPerSlice, reserveAuctionQty, auctionAllowed,
                   targetContinuousQty, remaining, base, i, rows, contPlanned,
                   auctionPlanned, totalPlanned, excess>>
    /\ UNCHANGED <<wArg, wRaw, now, acc, paceClass, live, marketVWAP, orderVWAP, perf, advice>>

NextWeights == EqualWeights \/ UCurvePush \/ UCurveReturn

SpecWeights == InitWeights /\ [][NextWeights]_vars

(***************************************************************************)
(* PlannerCard: pacing against the plan and VWAP performance, lines        *)
(* 335-362 and 478-502.  Prices, turnover and notional are whole numbers   *)
(* of the currency's minor unit; a VWAP is the rational the code computes  *)
(* in floating point.                                                      *)
(***************************************************************************)
\* t1 < t2 on two zero-padded "HH:MM" strings: the hours decide, then the minutes
StrLt(t1, t2) == t1.h < t2.h \/ (t1.h = t2.h /\ t1.m < t2.m)

clamp(n, lo, hi) == Max(lo, Min(hi, n))

partialQty_overshoot(r, t) ==
    r.suggestedQty + (r.suggestedQty * clamp(minutesBetween(r.s, t), 0, r.mins)) \div Max(1, r.mins)

partialQty_roundUp(r, t) ==
    LET elapsed == clamp(minutesBetween(r.s, t), 0, r.mins)
    IN  IF r.mins > 0 THEN CeilDiv(r.suggestedQty * elapsed, r.mins) ELSE 0

\* lines 340-342: the share of the row in progress, Math.floor(r.suggestedQty * frac)
partialQty(r, t) ==
    LET elapsed == clamp(minutesBetween(r.s, t), 0, r.mins)
    IN  IF r.mins > 0 THEN (r.suggestedQty * elapsed) \div r.mins ELSE 0

\* the loop of accumulatedSuggested from row k on, lines 337-347
RECURSIVE accFrom(_, _, _)
accFrom(rs, k, t) ==
    IF k > Len(rs) THEN 0
    ELSE LET r == rs[k] IN
         IF ~StrLt(t, r.e) THEN r.suggestedQty + accFrom(rs, k + 1, t)
         ELSE IF StrLt(r.s, t) /\ StrLt(t, r.e) THEN partialQty(r, t)
         ELSE IF StrLt(t, r.s) THEN 0
         ELSE accFrom(rs, k + 1, t)

\* accumulatedSuggested(plan, sessionStart, now), lines 335-349
accumulatedSuggested(rs, sessionStart, t) == accFrom(rs, 1, t)

\* the tolerance of the pacing class, in percent: 0.05
PaceTolPct == 5

paceClassOf_aheadAtZero(accSuggested, accExecuted) ==
    IF 100 * (accExecuted - accSuggested) >= PaceTolPct * accSuggested THEN "AHEAD"
    ELSE IF 100 * (accExecuted - accSuggested) <= -(PaceTolPct * accSuggested) THEN "LAG"
    ELSE "ON"

paceClassOf_strict(accSuggested, accExecuted) ==
    IF accSuggested = 0 THEN "ON"
    ELSE IF 100 * (accExecuted - accSuggested) > PaceTolPct * accSuggested THEN "AHEAD"
    ELSE IF 100 * (accExecuted - accSuggested) < -(PaceTolPct * accSuggested) THEN "LAG"
    ELSE "ON"

\* paceClass, lines 486-497.  (The StatusHUD of unnamed/part_000, lines 417-421,
\* uses 8 percent and strict comparisons instead.)
paceClassOf(accSuggested, accExecuted) ==
    LET deltaVsPlan == accExecuted - accSuggested
    IN  IF accSuggested = 0 THEN "ON"
        ELSE IF 100 * deltaVsPlan >= PaceTolPct * accSuggested THEN "AHEAD"
        ELSE IF 100 * deltaVsPlan <= -(PaceTolPct * accSuggested) THEN "LAG"
        ELSE "ON"

\* impliedMarketVWAP, lines 359-362
impliedMarketVWAP(turnover, curVol, manual) ==
    IF curVol > 0 /\ turnover > 0 THEN Rat(turnover, curVol) ELSE Rat(manual, 1)

\* the volume PlannerCard hands to impliedMarketVWAP, line 500.  (The StatusHUD
\* of unnamed/part_000, lines 408-415, divides by order.currentVol.)
marketVolumeOf(o, lv) == o.currentVol - lv.startVol

\* orderVWAP, line 501
orderVWAPOf(lv) ==
    IF lv.orderExecQty > 0 THEN Rat(lv.orderExecNotional, lv.orderExecQty) ELSE Zero

\* basis points per unit
BpsScale == 10000

performanceBps_noGuard(side, oVWAP, mVWAP) ==
    IF mVWAP.num = 0 THEN Zero
    ELSE IF side = "BUY"
         THEN Rat(BpsScale * (mVWAP.num * oVWAP.den - oVWAP.num * mVWAP.den), mVWAP.num * oVWAP.den)
         ELSE Rat(BpsScale * (oVWAP.num * mVWAP.den - mVWAP.num * oVWAP.den), mVWAP.num * oVWAP.den)

performanceBps_sideBlind(side, oVWAP, mVWAP) ==
    IF mVWAP.num = 0 \/ oVWAP.num = 0 THEN Zero
    ELSE Rat(BpsScale * (mVWAP.num * oVWAP.den - oVWAP.num * mVWAP.den), mVWAP.num * oVWAP.den)

\* performanceBps, lines 352-357: (marketVWAP - orderVWAP) / marketVWAP * 10000
\* for a buy, its negation for a sell, as one fraction
performanceBps(side, oVWAP, mVWAP) ==
    IF mVWAP.num = 0 \/ oVWAP.num = 0 THEN Zero
    ELSE IF side = "BUY"
         THEN Rat(BpsScale * (mVWAP.num * oVWAP.den - oVWAP.num * mVWAP.den), mVWAP.num * oVWAP.den)
         ELSE Rat(BpsScale * (oVWAP.num * mVWAP.den - mVWAP.num * oVWAP.den), mVWAP.num * oVWAP.den)

mkLive(sd, sv, to, mv, eq, en) ==
    [side |-> sd, startVol |-> sv, marketTurnover |-> to, marketVWAPInput |-> mv,
     orderExecQty |-> eq, orderExecNotional |-> en]

\* the clock samples: from before the earliest window to after the latest
PaceClock == {TimeOf(m) : m \in 596..(600 + MaxWindow)}

PaceLives == {mkLive("BUY", 0, 0, 0, eq, 0) : eq \in {0, MaxQty \div 2}}

\* the orders whose plans are paced: the larger quantities of Orders
PaceOrders == {o \in Orders : o.orderQty >= MaxQty - 1 /\ o.expectedContVol > 0}

InitPace ==
    /\ \E o \in PaceOrders : Blank(o, "call")
    /\ IdleWeights
    /\ IdlePace
    /\ live \in PaceLives
    /\ IdlePerf
    /\ advice = NoAdvice
    /\ IdleClose

\* one render of PlannerCard over the plan built, lines 478-502, at a clock
\* sample no earlier than the one of the render before
PlannerCard ==
    /\ UNCHANGED <<coach, closeTimes, phase>>
    /\ pc \in {"done", "paced"}
    /\ \E t \in PaceClock :
          /\ pc = "paced" => ~StrLt(t, now)
          /\ now' = t
    /\ acc' = accumulatedSuggested(rows, order.sessionStart, now')
    /\ paceClass' = paceClassOf(acc', live.orderExecQty)
    /\ marketVWAP' = impliedMarketVWAP(live.marketTurnover, marketVolumeOf(order, live),
                                       live.marketVWAPInput)
    /\ orderVWAP' = orderVWAPOf(live)
    /\ perf' = performanceBps(live.side, orderVWAP', marketVWAP')
    /\ pc' = "paced"
    /\ UNCHANGED <<order, slices, contVolPerSlice, reserveAuctionQty, auctionAllowed,
                   targetContinuousQty, remaining, base, i, rows, contPlanned,
                   auctionPlanned, totalPlanned, excess>>
    /\ UNCHANGED <<wArg, wRaw, weights, live, advice>>

NextPace == Next \/ PlannerCard

SpecPace == InitPace /\ [][NextPace]_vars

(***************************************************************************)
(* The pacing class on its own, lines 483-497, over accumulated suggested  *)
(* and executed quantities that reach the 5 percent boundaries.            *)
(***************************************************************************)
InitClass ==
    /\ Blank(QuietOrder, "class")
    /\ IdleWeights
    /\ now = Time(0, 0)
    /\ acc \in 0..MaxAcc
    /\ paceClass = "none"
    /\ \E eq \in 0..(MaxAcc + MaxAcc \div 10 + 1) : live = mkLive("BUY", 0, 0, 0, eq, 0)
    /\ IdlePerf
    /\ advice = NoAdvice
    /\ IdleClose

\* lines 483-497 of PlannerCard, given accSuggested
Classify ==
    /\ UNCHANGED <<coach, closeTimes, phase>>
    /\ pc = "class"
    /\ paceClass' = paceClassOf(acc, live.orderExecQty)
    /\ pc' = "classed"
    /\ UNCHANGED <<order, slices, contVolPerSlice, reserveAuctionQty, auctionAllowed,
                   targetContinuousQty, remaining, base, i, rows, contPlanned,
                   auctionPlanned, totalPlanned, excess>>
    /\ UNCHANGED <<wArg, wRaw, weights, now, acc, live, marketVWAP, orderVWAP, perf, advice>>

NextClass == Classify

SpecClass == InitClass /\ [][NextClass]_vars

(***************************************************************************)
(* VWAP performance on its own, lines 499-502, over volumes, turnovers,    *)
(* manual prices and executions that reach every branch.                   *)
(***************************************************************************)
PerfVols == {0, 2, 4}
TurnoverSet == {0, 4, 6, 12}
NotionalSet == {0, 2, 4, 6}

PerfOrders ==
    {mkOrder(Window(598, MaxWindow, 1), MaxQty, "OTD", "NONE", 100, 0, FALSE, "equal",
             cur, MaxVol, MaxVol) : cur \in PerfVols}

PerfLives ==
    {mkLive(sd, sv, to, mv, eq, en) :
        sd \in {"BUY", "SELL"}, sv \in {0, 2}, to \in TurnoverSet, mv \in 0..MaxPx,
        eq \in 0..2, en \in NotionalSet}

InitPerf ==
    /\ \E o \in PerfOrders : Blank(o, "perf")
    /\ IdleWeights
    /\ IdlePace
    /\ live \in PerfLives
    /\ IdlePerf
    /\ advice = NoAdvice
    /\ IdleClose

\* lines 499-502 of PlannerCard
Evaluate ==
    /\ UNCHANGED <<coach, closeTimes, phase>>
    /\ pc = "perf"
    /\ marketVWAP' = impliedMarketVWAP(live.marketTurnover, marketVolumeOf(order, live),
                                       live.marketVWAPInput)
    /\ orderVWAP' = orderVWAPOf(live)
    /\ perf' = performanceBps(live.side, orderVWAP', marketVWAP')
    /\ pc' = "evaluated"
    /\ UNCHANGED <<order, slices, contVolPerSlice, reserveAuctionQty, auctionAllowed,
                   targetContinuousQty, remaining, base, i, rows, contPlanned,
                   auctionPlanned, totalPlanned, excess>>
    /\ UNCHANGED <<wArg, wRaw, weights, now, acc, paceClass, live, advice>>

NextPerf == Evaluate

SpecPerf == InitPerf /\ [][NextPerf]_vars

(***************************************************************************)
(* advise, lines 1590-1617, over a plan of two slices.  This is code of    *)
(* the second copy of the engine (its impact score is also in the          *)
(* StatusHUD of unnamed/part_000, 428-432); a later copy (lines 2084-2099) *)
(* computes a different impactScore from size and cap heat.  advise is     *)
(* handed the clock as "HH:MM:SS"; its comparisons and its parsing come    *)
(* out as on "HH:MM", the seconds never deciding against "HH:MM" bounds.   *)
(***************************************************************************)
AdviseOrders ==
    {mkOrder(Window(598, MaxWindow, 1), qty, "OTD", "NONE", 100, 0, FALSE, "equal",
             0, ecv, eav) : qty \in 0..MaxAdviseQty, ecv \in VolSet, eav \in VolSet}

\* the plan handed to advise: ten shares in each of two slices of two minutes,
\* the second one capped at three
AdvisePlan ==
    << [s |-> TimeOf(598), e |-> TimeOf(600), mins |-> 2, expMktVol |-> 10,
        maxAllowed |-> Unbounded, suggestedQty |-> 10],
       [s |-> TimeOf(600), e |-> TimeOf(602), mins |-> 2, expMktVol |-> 10,
        maxAllowed |-> 3, suggestedQty |-> 10] >>

AdviseClock == {TimeOf(m) : m \in 597..603}

InitAdvise ==
    /\ \E o \in AdviseOrders : order = o
    /\ pc = "advise"
    /\ rows = AdvisePlan
    /\ slices = <<>> /\ contVolPerSlice = <<>>
    /\ reserveAuctionQty = 0 /\ auctionAllowed = 0 /\ targetContinuousQty = 0
    /\ remaining = 0 /\ base = 0 /\ i = 0
    /\ contPlanned = 0 /\ auctionPlanned = 0 /\ totalPlanned = 0 /\ excess = 0
    /\ IdleWeights
    /\ now \in AdviseClock
    /\ acc = 0
    /\ paceClass = "none"
    /\ \E eq \in 0..(MaxAdviseQty + 1) : live = mkLive("BUY", 0, 0, 0, eq, 0)
    /\ IdlePerf
    /\ advice = NoAdvice
    /\ IdleClose

\* toMin of withinSlice, lines 1307-1310
toMin(t) == t.h * 60 + t.m

\* withinSlice, lines 1306-1313
withinSlice(cur, s, e) == toMin(cur) >= toMin(s) /\ toMin(cur) < toMin(e)

\* Math.floor(r.suggestedQty * clamp01(elapsed / sliceLen)), lines 1485-1488 and 1599-1601
sliceShare(r, t) ==
    LET sliceLen == Max(1, minutesBetween(r.s, r.e))
        elapsed == Max(0, minutesBetween(r.s, t))
    IN  (r.suggestedQty * Min(elapsed, sliceLen)) \div sliceLen

\* the loop of targetAccumByNow from row k on, lines 1481-1491
RECURSIVE targetFrom(_, _, _)
targetFrom(rs, k, t) ==
    IF k > Len(rs) THEN 0
    ELSE LET r == rs[k] IN
         IF ~StrLt(t, r.e) THEN r.suggestedQty + targetFrom(rs, k + 1, t)
         ELSE IF withinSlice(t, r.s, r.e) THEN sliceShare(r, t)
         ELSE IF StrLt(t, r.s) THEN 0
         ELSE targetFrom(rs, k + 1, t)

\* targetAccumByNow(plan, sessionStart, now), lines 1479-1493
targetAccumByNow(rs, sessionStart, t) == targetFrom(rs, 1, t)

\* nextClip, lines 1596-1604: what is left of the live slice, within its cap
nextClipOf(rs, t) ==
    LET found == {k \in 1..Len(rs) : withinSlice(t, rs[k].s, rs[k].e)}
    IN  IF found = {} THEN 0
        ELSE LET liveRow == rs[CHOOSE k \in found : \A j \in found : k <= j]
                 remainingInSlice == Max(0, liveRow.suggestedQty - sliceShare(liveRow, t))
             IN  IF liveRow.maxAllowed = Unbounded THEN remainingInSlice
                 ELSE Min(remainingInSlice, liveRow.maxAllowed)

mathRound_floor(n, d) == FloorDiv(n, d)

\* Math.round(n / d) for d > 0: the nearest integer, a half going up
mathRound(n, d) == FloorDiv(2 * n + d, 2 * d)

\* the range of the impact score
ImpactLo == 1
ImpactHi == 10

\* Math.min(10, Math.max(1, Math.round(requiredPOV * 10))), line 1609
impactScoreOf(remainingOrder, expRemainingVol) ==
    Min(ImpactHi, Max(ImpactLo, mathRound(remainingOrder * 10, expRemainingVol)))

\* the tolerance of the pacing advice, in percent: 0.1
AdviseTolPct == 10

\* the impact score from which the participation advice is given
ImpactAlert == 8

adviseAction_paceFirst(delta, shouldAccum, impactScore) ==
    LET ref == IF shouldAccum = 0 THEN 1 ELSE shouldAccum
    IN  IF 100 * delta < -(AdviseTolPct * ref) THEN "BEHIND"
        ELSE IF 100 * delta > AdviseTolPct * ref THEN "AHEAD"
        ELSE IF impactScore >= ImpactAlert THEN "HIGH" ELSE "HOLD"

adviseAction_inclusive(delta, shouldAccum, impactScore) ==
    LET ref == IF shouldAccum = 0 THEN 1 ELSE shouldAccum
    IN  IF impactScore >= ImpactAlert THEN "HIGH"
        ELSE IF 100 * delta <= -(AdviseTolPct * ref) THEN "BEHIND"
        ELSE IF 100 * delta >= AdviseTolPct * ref THEN "AHEAD"
        ELSE "HOLD"

\* action, lines 1611-1614: three assignments in a row, the last one that fires wins.
\* "HOLD" is "Hold steady.", "BEHIND" "Behind pace ...", "AHEAD" "Ahead of pace ...",
\* "HIGH" "High required participation -> reduce clip size or lean on auction."
adviseAction(delta, shouldAccum, impactScore) ==
    LET ref == IF shouldAccum = 0 THEN 1 ELSE shouldAccum
        a1 == IF 100 * delta < -(AdviseTolPct * ref) THEN "BEHIND" ELSE "HOLD"
        a2 == IF 100 * delta > AdviseTolPct * ref THEN "AHEAD" ELSE a1
    IN  IF impactScore >= ImpactAlert THEN "HIGH" ELSE a2

\* advise, lines 1590-1617
Advise ==
    /\ UNCHANGED <<coach, closeTimes, phase>>
    /\ pc = "advise"
    /\ LET shouldAccum == targetAccumByNow(rows, order.sessionStart, now)
           execAccum == live.orderExecQty
           delta == execAccum - shouldAccum
           remainingOrder == Max(0, order.orderQty - execAccum)
           expRemainingVol == Max(1, order.expectedContVol + order.expectedAuctionVol)
           impactScore == impactScoreOf(remainingOrder, expRemainingVol)
       IN  advice' = [shouldAccum |-> shouldAccum,
                      pacingDelta |-> delta,
                      nextClip |-> Max(0, nextClipOf(rows, now)),
                      remainingOrder |-> remainingOrder,
                      expRemainingVol |-> expRemainingVol,
                      requiredPOV |-> Rat(remainingOrder, expRemainingVol),
                      impactScore |-> impactScore,
                      action |-> adviseAction(delta, shouldAccum, impactScore)]
    /\ pc' = "advised"
    /\ UNCHANGED <<order, slices, contVolPerSlice, reserveAuctionQty, auctionAllowed,
                   targetContinuousQty, remaining, base, i, rows, contPlanned,
                   auctionPlanned, totalPlanned, excess>>
    /\ UNCHANGED <<wArg, wRaw, weights, now, acc, paceClass, live, marketVWAP, orderVWAP, perf>>

NextAdvise == Advise

SpecAdvise == InitAdvise /\ [][NextAdvise]_vars

(***************************************************************************)
(* coachTips, lines 3488-3560, over the plan of buildPlan with the         *)
(* diagnostics buildPlan adds to it at lines 3238, 3248-3253, 3288-3299,   *)
(* 3305-3315 and 3351-3363.  A tip is kept as its kind; the numbers        *)
(* printed in a tip are functions of the order and the plan.               *)
(***************************************************************************)
CoachOrders ==
    {o \in PaceOrders : o.orderQty = MaxQty /\ o.curve = "equal" /\ o.intervalMins = 1}

CoachLives ==
    {mkLive("BUY", 0, 0, 0, 0, 0), mkLive("BUY", 0, 0, 2, 1, 3), mkLive("SELL", 0, 0, 2, 1, 3)}

\* the readings the wall clock can give
CoachClock == PaceClock

InitCoach ==
    /\ \E o \in CoachOrders : Blank(o, "call")
    /\ IdleWeights
    /\ IdlePace
    /\ live \in CoachLives
    /\ IdlePerf
    /\ advice = NoAdvice
    /\ IdleClose

\* preCap of row k: Math.min(base, remainingForContinuous) in OTD (lines 3246-3248),
\* Math.floor(sliceVol * targetPartRate) in INLINE (lines 3310-3311)
preCapOf(o, rs, target, k) ==
    IF o.execMode = "OTD"
    THEN Min(FloorW(o.curve, Len(rs), k, target), target - SumFirst(rs, k - 1))
    ELSE FloorDiv(rs[k].expMktVol * povNum(o), povDen(o))

\* capBindings, lines 3251-3253 and 3313-3315: the rows whose quantity the cap cut
capBindingsOf(o, rs, target) ==
    Cardinality({k \in 1..Len(rs) :
        /\ o.capMode = "PCT"
        /\ applyCap(o.capMode, o.maxPart, preCapOf(o, rs, target, k), rs[k].expMktVol)
             = capAllowed(o.maxPart, rs[k].expMktVol)
        /\ preCapOf(o, rs, target, k)
             > applyCap(o.capMode, o.maxPart, preCapOf(o, rs, target, k), rs[k].expMktVol)})

\* impliedPartRate, lines 3288 and 3351-3352
impliedPartRateOf(o, cont, auction) ==
    IF expectedTotalVol(o) > 0 THEN Rat(cont + auction, expectedTotalVol(o)) ELSE Zero

\* targetPartRate, lines 3289 and 3305-3306
targetPartRateOf(o, cont, auction) ==
    IF o.execMode = "OTD" THEN impliedPartRateOf(o, cont, auction) ELSE Rat(povNum(o), povDen(o))

\* the liquidity regime, lines 3491-3497
liquidityOf(o) ==
    IF expectedTotalVol(o) > 0 /\ 100 * o.orderQty >= 35 * expectedTotalVol(o) THEN "Heavy"
    ELSE IF expectedTotalVol(o) > 0 /\ 100 * o.orderQty >= 15 * expectedTotalVol(o) THEN "Normal"
    ELSE "Thin"

\* the cap tip, lines 3504-3510: capBindingPct = capBindings / slices.length * 100
capTipOf(o, bindings, n) ==
    IF o.capMode # "PCT" THEN "none"
    ELSE IF 100 * bindings >= 40 * n THEN "binding"
    ELSE IF 100 * bindings >= 15 * n THEN "noticeable"
    ELSE "none"

\* the urgency tip, lines 3513-3521:
\* urgency = 0.5 * remainingFrac + 0.3 * capBindingPct / 100 + 0.2 * timeFrac,
\* compared with 0.7 and 0.45 after multiplying through by 1000 * Q * minsLeft * n
urgencyTipOf(o, cont, auction, bindings, n, nowHHMM) ==
    LET minsLeft == Max(1, minutesBetween(o.sessionStart, o.sessionEnd))
        elapsed == Max(0, minutesBetween(o.sessionStart, nowHHMM))
        E == Min(minsLeft, elapsed)
        Q == Max(1, o.orderQty)
        U == 500 * (Q - (cont + auction)) * minsLeft * n
             + 300 * bindings * Q * minsLeft
             + 200 * E * Q * n
    IN  IF U > 700 * Q * minsLeft * n THEN "high"
        ELSE IF U > 450 * Q * minsLeft * n THEN "moderate"
        ELSE "none"

\* the auction tip, lines 3524-3531
auctionTipOf(o, allowed) ==
    IF o.expectedAuctionVol > 0
    THEN IF allowed < FloorDiv(o.orderQty * o.reserveAuctionPct, 100) THEN "tight" ELSE "healthy"
    ELSE "none"

\* the VWAP tip, lines 3534-3548
vwapTipOf(o, lv) ==
    LET mv == impliedMarketVWAP(lv.marketTurnover, o.currentVol, lv.marketVWAPInput)
        p == performanceBps(lv.side, orderVWAPOf(lv), mv)
    IN  IF Abs(p.num) >= 25 * Abs(p.den)
        THEN IF (p.num < 0) # (p.den < 0) THEN "under" ELSE "beating"
        ELSE "none"

\* coachTips(order, plan), lines 3488-3560, with the value of new Date() at line 3514
coachTips(o, lv, rs, target, cont, auction, allowed, nowHHMM) ==
    LET bindings == capBindingsOf(o, rs, target)
        implied == impliedPartRateOf(o, cont, auction)
        tgt == targetPartRateOf(o, cont, auction)
    IN  [cap |-> capTipOf(o, bindings, Len(rs)),
         urgency |-> urgencyTipOf(o, cont, auction, bindings, Len(rs), nowHHMM),
         auction |-> auctionTipOf(o, allowed),
         vwap |-> vwapTipOf(o, lv),
         behind |-> o.execMode = "INLINE" /\ 10 * implied.num * tgt.den < 9 * tgt.num * implied.den,
         ahead |-> o.execMode = "INLINE" /\ 10 * implied.num * tgt.den > 11 * tgt.num * implied.den,
         liquidity |-> liquidityOf(o)]

\* one call of coachTips on the plan built; the function reads the time of day
\* itself (new Date(), line 3514), so the reading is not among its arguments
CoachTips ==
    /\ pc \in {"done", "coached"}
    /\ coach.calls < 2
    /\ \E t \in CoachClock :
          /\ pc = "coached" => ~StrLt(t, now)
          /\ now' = t
    /\ LET tips == coachTips(order, live, rows, targetContinuousQty, contPlanned,
                             auctionPlanned, auctionAllowed, now')
       IN  coach' = IF coach.calls = 0
                    THEN [coach EXCEPT !.calls = 1, !.first = tips]
                    ELSE [coach EXCEPT !.calls = 2, !.second = tips]
    /\ pc' = "coached"
    /\ UNCHANGED <<order, slices, contVolPerSlice, reserveAuctionQty, auctionAllowed,
                   targetContinuousQty, remaining, base, i, rows, contPlanned,
                   auctionPlanned, totalPlanned, excess>>
    /\ UNCHANGED <<wArg, wRaw, weights, acc, paceClass, live, marketVWAP, orderVWAP, perf,
                   advice, closeTimes, phase>>

NextCoach == Next \/ CoachTips

SpecCoach == InitCoach /\ [][NextCoach]_vars

(***************************************************************************)
(* getPhase, lines 1578-1585 (the same function is in unnamed/part_000,    *)
(* 386-393), called at clock samples that advance through the day.         *)
(***************************************************************************)
PhaseOrders ==
    {mkOrder(Window(st, d, 1), MaxQty, "OTD", "NONE", 100, 0, FALSE, "equal", 0, MaxVol, MaxVol) :
        st \in PlanStarts, d \in (-1)..MaxWindow}

PhaseClock == {TimeOf(m) : m \in 596..(602 + MaxWindow)}

InitPhase ==
    /\ \E o \in PhaseOrders : Blank(o, "phase")
    /\ IdleWeights
    /\ IdlePace
    /\ live = NoLive
    /\ IdlePerf
    /\ advice = NoAdvice
    /\ coach = NoCoach
    /\ \E a, b \in (-1)..1 :
          closeTimes = [auctionEnd |-> addMinutes(order.sessionEnd, a),
                        talEnd |-> addMinutes(order.sessionEnd, a + b)]
    /\ phase = "none"

getPhase_endInclusive(o, ct, t) ==
    IF StrLt(t, o.sessionStart) THEN "PRE"
    ELSE IF ~StrLt(o.sessionEnd, t) THEN "CONT"
    ELSE IF StrLt(t, ct.auctionEnd) THEN "AUCTION"
    ELSE IF StrLt(t, ct.talEnd) THEN "TAL"
    ELSE "CLOSED"

\* getPhase(order, now), lines 1579-1585; ct holds the order's auctionEnd and talEnd
getPhase(o, ct, t) ==
    IF StrLt(t, o.sessionStart) THEN "PRE"
    ELSE IF ~StrLt(t, o.sessionStart) /\ StrLt(t, o.sessionEnd) THEN "CONT"
    ELSE IF ~StrLt(t, o.sessionEnd) /\ StrLt(t, ct.auctionEnd) THEN "AUCTION"
    ELSE IF ~StrLt(t, ct.auctionEnd) /\ StrLt(t, ct.talEnd) THEN "TAL"
    ELSE "CLOSED"

\* one call of getPhase, at a clock sample no earlier than the one before
GetPhase ==
    /\ pc \in {"phase", "phased"}
    /\ \E t \in PhaseClock :
          /\ pc = "phased" => ~StrLt(t, now)
          /\ now' = t
    /\ phase' = getPhase(order, closeTimes, now')
    /\ pc' = "phased"
    /\ UNCHANGED <<order, slices, contVolPerSlice, reserveAuctionQty, auctionAllowed,
                   targetContinuousQty, remaining, base, i, rows, contPlanned,
                   auctionPlanned, totalPlanned, excess>>
    /\ UNCHANGED <<wArg, wRaw, weights, acc, paceClass, live, marketVWAP, orderVWAP, perf,
                   advice, coach, closeTimes>>

NextPhase == GetPhase

SpecPhase == InitPhase /\ [][NextPhase]_vars

(***************************************************************************)
(* Properties                                                              *)
(***************************************************************************)
Done == pc = "done"
Pct == order.capMode = "PCT"
Otd == order.execMode = "OTD"
Inline == order.execMode = "INLINE"

\* minutes after midnight of a time of day
MinuteOfDay(t) == t.h * 60 + t.m

\* the weight of slice k of n, as a pair numerator, denominator
WeightOf(k) == <<WNum(order.curve, Len(slices), k), WDen(order.curve, Len(slices))>>

\* C1 -- No over-allocation: the returned plan has
\* contPlanned + auctionPlanned <= orderQty.
C1_NoOverAllocation ==
    Done => contPlanned + auctionPlanned <= order.orderQty

\* C2 -- Cap enforcement: under capMode PCT every row, at every point of
\* buildPlan and in the returned plan, has
\* suggestedQty <= floor(expMktVol * maxPart / 100) and maxAllowed equal to
\* that bound.
C2_CapEnforcement ==
    Pct => \A k \in 1..Len(rows) :
              /\ rows[k].suggestedQty <= (rows[k].expMktVol * order.maxPart) \div 100
              /\ rows[k].maxAllowed = (rows[k].expMktVol * order.maxPart) \div 100

\* C2: a returned OTD plan whose last row is held below its base by a positive cap
C2_Witness ==
    /\ Done /\ Pct /\ Otd
    /\ rows[Len(rows)].suggestedQty > 0
    /\ rows[Len(rows)].suggestedQty = rows[Len(rows)].maxAllowed
    /\ base > rows[Len(rows)].suggestedQty

\* C3 -- Reserve-before-slice: in OTD the continuous leg is built against
\* max(0, orderQty - floor(orderQty * reservePct / 100)): the base of every
\* row is floor(weight * target), and the rows never sum to more than the
\* target.
C3_ReserveBeforeSlice ==
    (Otd /\ pc \in {"otd", "done"}) =>
        LET target == Max(0, order.orderQty
                              - (order.orderQty * order.reserveAuctionPct) \div 100)
        IN  /\ targetContinuousQty = target
            /\ i > 0 => base = (WeightOf(i)[1] * target) \div WeightOf(i)[2]
            /\ \A k \in 1..Len(rows) :
                  rows[k].suggestedQty <= (WeightOf(k)[1] * target) \div WeightOf(k)[2]
            /\ sumSuggested(rows) <= target

\* C3: a returned OTD plan with a positive reserve whose rows (two or more)
\* take a positive quantity below the order quantity
C3_Witness ==
    /\ Done /\ Otd
    /\ reserveAuctionQty > 0
    /\ Len(rows) >= 2
    /\ sumSuggested(rows) > 0
    /\ sumSuggested(rows) > order.orderQty - 2 * reserveAuctionQty
    /\ targetContinuousQty < order.orderQty

\* C4 -- contPlanned of the returned plan is the sum of the returned rows'
\* suggestedQty, also after the INLINE tail trim.
C4_ContPlannedIsRowSum ==
    Done => contPlanned = sumSuggested(rows)

\* C5 -- auctionPlanned <= auctionAllowed in the returned plan, where
\* auctionAllowed is floor(expectedAuctionVol * maxPart / 100) under PCT and
\* expectedAuctionVol without a cap.
C5_AuctionWithinAllowed ==
    Done =>
        /\ auctionAllowed = (IF Pct THEN (order.expectedAuctionVol * order.maxPart) \div 100
                                    ELSE order.expectedAuctionVol)
        /\ auctionPlanned <= auctionAllowed

\* C5: a returned OTD plan whose auction leg is cut down to the auction capacity
C5_Witness ==
    /\ Done /\ Otd
    /\ auctionPlanned = auctionAllowed
    /\ reserveAuctionQty + (targetContinuousQty - contPlanned) > auctionAllowed

\* C6 -- OTD: auctionPlanned = min(reserve + max(0, target - contPlanned),
\* auctionAllowed), and when reservePct <= 100 and
\* auctionAllowed >= orderQty - contPlanned the plan allocates exactly
\* orderQty.
C6_ShortfallRollsIntoAuction ==
    (Done /\ Otd) =>
        /\ auctionPlanned =
              Min(reserveAuctionQty + Max(0, targetContinuousQty - contPlanned), auctionAllowed)
        /\ (order.reserveAuctionPct <= 100 /\ auctionAllowed >= order.orderQty - contPlanned)
              => contPlanned + auctionPlanned = order.orderQty

\* C6: a returned OTD plan whose rows fall short of the target, the shortfall
\* being taken by the auction leg on top of a positive reserve
C6_Witness ==
    /\ Done /\ Otd
    /\ order.reserveAuctionPct <= 100
    /\ reserveAuctionQty > 0
    /\ contPlanned < targetContinuousQty
    /\ auctionPlanned > reserveAuctionQty
    /\ contPlanned + auctionPlanned = order.orderQty

\* C7 -- buildPlan is total: from every order it goes on until it returns,
\* and the returned plan has max(1, ceil(T / intervalMins)) rows and
\* non-negative integer quantities.
C7_PlanWellFormed ==
    /\ ~Done => ENABLED Next
    /\ Done =>
        LET T == Max(0, MinuteOfDay(order.sessionEnd) - MinuteOfDay(order.sessionStart))
            n == IF T = 0 THEN 1
                 ELSE (T + order.intervalMins - 1) \div order.intervalMins
        IN  /\ Len(rows) = n
            /\ \A k \in 1..Len(rows) : rows[k].suggestedQty \in Nat
            /\ contPlanned \in Nat
            /\ auctionPlanned \in Nat

\* C7: a plan returned for a window that ends before it starts, with no volume at all
C7_Witness ==
    /\ Done
    /\ MinuteOfDay(order.sessionEnd) < MinuteOfDay(order.sessionStart)
    /\ order.expectedContVol = 0 /\ order.expectedAuctionVol = 0
    /\ order.orderQty > 0
    /\ Len(rows) = 1

\* all rows of the plan suggest nothing
AllRowsZero == \A k \in 1..Len(rows) : rows[k].suggestedQty = 0

\* C8 (as stated) -- with expectedContVol = 0 every row of the returned plan
\* has suggestedQty = 0, in both execution modes and both cap modes.
C8_ZeroVolumeAllModes ==
    (Done /\ order.expectedContVol = 0) => AllRowsZero

\* C8 (amended) -- with expectedContVol = 0 every row has suggestedQty = 0 in
\* INLINE mode and in OTD mode under capMode PCT; in OTD mode without a cap
\* every row is floor(weight * target), whatever the volume.
C8_ZeroVolumeWhereVolumeCounts ==
    (Done /\ order.expectedContVol = 0) =>
        /\ (Inline \/ Pct) => AllRowsZero
        /\ (Otd /\ ~Pct) =>
              \A k \in 1..Len(rows) :
                  rows[k].suggestedQty =
                      (WeightOf(k)[1] * targetContinuousQty) \div WeightOf(k)[2]

\* C8: a capped OTD plan of two or more rows returned for a positive target,
\* a positive cap and no continuous volume
C8_Witness ==
    /\ Done /\ Otd /\ Pct
    /\ order.expectedContVol = 0
    /\ order.maxPart > 0
    /\ targetContinuousQty >= Len(rows)
    /\ Len(rows) >= 2
    /\ AllRowsZero

\* length in minutes of slice k
SliceLen(k) == MinuteOfDay(slices[k].e) - MinuteOfDay(slices[k].s)

\* C9 -- for start < end, timeSlices returns ceil((end - start) / step)
\* slices: the first starts at start, each ends where the next starts, all
\* but the last are step long, the last is positive and at most step long
\* and ends at end.
C9_SlicesCoverWindow ==
    (pc = "sliced" /\ MinuteOfDay(order.sessionStart) < MinuteOfDay(order.sessionEnd)) =>
        LET T == MinuteOfDay(order.sessionEnd) - MinuteOfDay(order.sessionStart)
            step == order.intervalMins
            n == Len(slices)
        IN  /\ n = (T + step - 1) \div step
            /\ slices[1].s = order.sessionStart
            /\ \A k \in 1..(n - 1) : slices[k].e = slices[k + 1].s /\ SliceLen(k) = step
            /\ SliceLen(n) > 0 /\ SliceLen(n) <= step
            /\ slices[n].e = order.sessionEnd
            /\ \A k \in 1..n : slices[k].mins = SliceLen(k)

\* C9: two or more slices, the last one shorter than the step, across an hour boundary
C9_Witness ==
    /\ pc = "sliced"
    /\ Len(slices) >= 2
    /\ SliceLen(Len(slices)) < order.intervalMins
    /\ slices[1].s.h < slices[Len(slices)].e.h

\* C10 -- for end <= start, timeSlices returns exactly one slice, of
\* duration zero.
C10_DegenerateWindow ==
    (pc = "sliced" /\ MinuteOfDay(order.sessionEnd) <= MinuteOfDay(order.sessionStart)) =>
        /\ Len(slices) = 1
        /\ slices[1].mins = 0
        /\ slices[1].s = order.sessionStart
        /\ slices[1].e = order.sessionEnd

\* C10: the one slice returned for a window that ends before it starts
C10_Witness ==
    /\ pc = "sliced"
    /\ MinuteOfDay(order.sessionEnd) < MinuteOfDay(order.sessionStart)
    /\ Len(slices) = 1
    /\ order.intervalMins > 1

\* the weights are returned
Weighted == pc = "weighted"

\* the sum of the numerators of the weights returned
NumSum == SumTo([k \in 1..Len(weights) |-> weights[k].num], Len(weights))

\* the weights returned are the weights buildPlan multiplies by (WNum / WDen)
WeightsAsPlanned ==
    Weighted =>
        \A k \in 1..Len(weights) :
            weights[k].num * WDen(wArg.curve, wArg.n) = WNum(wArg.curve, wArg.n, k) * weights[k].den

\* C11 -- Weights sum to one: for every n >= 1 both curves return exactly n
\* weights, each strictly positive, over one denominator, and the numerators
\* add up to that denominator (the sum is 1); each equal weight is 1/n.
C11_WeightsSumToOne ==
    (Weighted /\ wArg.n >= 1) =>
        /\ Len(weights) = wArg.n
        /\ \A k \in 1..Len(weights) :
              /\ weights[k].num > 0
              /\ weights[k].den > 0
              /\ weights[k].den = weights[1].den
              /\ wArg.curve = "equal" => weights[k].num * wArg.n = weights[k].den
        /\ NumSum = weights[1].den

\* a U-curve over at least three slices is returned, its weights not all equal
C11_Witness ==
    /\ Weighted
    /\ wArg.curve = "ucurve"
    /\ wArg.n >= 3
    /\ Len(weights) = wArg.n
    /\ weights[1].num < weights[2].num

\* twice the distance of slice k (1-based) from the centre (n-1)/2 of n slices
CentreDist2(n, k) == Abs(2 * (k - 1) - (n - 1))

\* twice the mid the code divides by: mid || 1
Mid2(n) == IF n = 1 THEN 2 ELSE n - 1

\* C12 -- U-curve shape: the weights are symmetric (w[i] = w[n-1-i]), a slice
\* nearer the centre never weighs less than one farther from it (so the
\* largest weight is at the centre), the unnormalised weight is
\* 0.6 + 0.8 * (1 - |i - mid| / mid) with mid taken as 1 when n = 1, and for
\* n >= 3 with an exact centre slice an edge slice weighs 0.6/1.4 of it.
C12_UCurveShape ==
    (Weighted /\ wArg.curve = "ucurve" /\ wArg.n >= 1) =>
        LET n == wArg.n IN
        /\ \A k \in 1..n : weights[k].num = weights[n + 1 - k].num
        /\ \A j, k \in 1..n :
              CentreDist2(n, j) <= CentreDist2(n, k) => weights[j].num >= weights[k].num
        /\ \A k \in 1..n :
              10 * Mid2(n) * wRaw[k] =
                  uCurveScale(n) * (6 * Mid2(n) + 8 * (Mid2(n) - CentreDist2(n, k)))
        /\ (n >= 3 /\ n % 2 = 1) =>
              /\ 14 * weights[1].num = 6 * weights[(n + 1) \div 2].num
              /\ 14 * weights[n].num = 6 * weights[(n + 1) \div 2].num

\* a U-curve with an exact centre slice and two slices on either side of it
C12_Witness ==
    /\ Weighted
    /\ wArg.curve = "ucurve"
    /\ wArg.n >= 5
    /\ wArg.n % 2 = 1
    /\ weights[1].num < weights[2].num
    /\ weights[2].num < weights[(wArg.n + 1) \div 2].num

\* PlannerCard has rendered over the finished plan
Paced == pc = "paced"

\* C13 -- Pacing monotonicity: over one plan, a render at a later clock sample
\* of the same day never shows a smaller accumulated suggested quantity than
\* the render before it.
C13_PacingMonotone == [][(Paced /\ Paced') => acc <= acc']_vars

\* the clock is inside the second slice, part of which is counted
C13_Witness ==
    /\ Paced
    /\ Len(rows) >= 2
    /\ StrLt(rows[2].s, now)
    /\ StrLt(now, rows[2].e)
    /\ acc > rows[1].suggestedQty
    /\ acc < rows[1].suggestedQty + rows[2].suggestedQty

\* C14 -- Pacing completion: once the clock is at or after the session end,
\* the accumulated suggested quantity is the plan's continuousPlanned, in
\* either mode and on trimmed plans too.
C14_PacingCompletes ==
    (Paced /\ ~StrLt(now, order.sessionEnd)) => acc = contPlanned

\* the pacing class is computed
Classed == pc = "classed"

\* executed minus suggested
DeltaVsPlan == live.orderExecQty - acc

\* C15 -- Pacing classification: with accumulatedSuggested > 0 the class is
\* AHEAD exactly when delta >= 0.05 * accumulatedSuggested, LAG exactly when
\* delta <= -0.05 * accumulatedSuggested, ON_TRACK otherwise; it is one of the
\* three.  (0.05 * a is a / 20.)
C15_PaceClasses ==
    (Classed /\ acc > 0) =>
        /\ paceClass \in {"AHEAD", "LAG", "ON"}
        /\ paceClass = "AHEAD" <=> 20 * DeltaVsPlan >= acc
        /\ paceClass = "LAG" <=> 20 * DeltaVsPlan <= -acc
        /\ paceClass = "ON" <=> (20 * DeltaVsPlan < acc /\ 20 * DeltaVsPlan > -acc)

\* executed is short of suggested by exactly 5 percent
C15_Witness ==
    /\ Classed
    /\ acc > 0
    /\ 20 * DeltaVsPlan = -acc
    /\ paceClass = "LAG"

\* C16 -- Zero-plan classification, as claimed: when accumulatedSuggested is 0
\* the class is AHEAD for every executedQty >= 0.
C16_AheadAtZero ==
    (Classed /\ acc = 0) => paceClass = "AHEAD"

\* C16 -- Zero-plan classification, as the code has it: when
\* accumulatedSuggested is 0 the class is ON_TRACK for every executedQty >= 0.
C16_OnTrackAtZero ==
    (Classed /\ acc = 0) => paceClass = "ON"

\* nothing suggested yet, something executed
C16_Witness ==
    /\ Classed
    /\ acc = 0
    /\ live.orderExecQty > 0
    /\ paceClass = "ON"

\* the performance figures are computed
Evaluated == pc = "evaluated"

\* a < b, a = b on rationals with positive denominators
RatLt(a, b) == a.num * b.den < b.num * a.den
RatEq(a, b) == a.num * b.den = b.num * a.den

OtherSide == IF live.side = "BUY" THEN "SELL" ELSE "BUY"

\* C17 -- Slippage sign: for positive VWAPs a buy's slippage is positive
\* exactly when orderVWAP < marketVWAP, a sell's exactly when
\* orderVWAP > marketVWAP; the result for the other side on the same prices
\* is the negation; it is 0 when the two prices are equal.
C17_SlippageSign ==
    (Evaluated /\ orderVWAP.num > 0 /\ marketVWAP.num > 0) =>
        /\ perf.den > 0
        /\ live.side = "BUY" => (perf.num > 0 <=> RatLt(orderVWAP, marketVWAP))
        /\ live.side = "SELL" => (perf.num > 0 <=> RatLt(marketVWAP, orderVWAP))
        /\ LET other == performanceBps(OtherSide, orderVWAP, marketVWAP)
           IN  perf.num * other.den = -(other.num * perf.den)
        /\ RatEq(orderVWAP, marketVWAP) => perf.num = 0

\* a sell executed above the market
C17_Witness ==
    /\ Evaluated
    /\ live.side = "SELL"
    /\ marketVWAP.num > 0
    /\ RatLt(marketVWAP, orderVWAP)
    /\ perf.num > 0

\* C18 -- No-signal rule: the slippage is 0 for either side whenever the
\* market VWAP is 0 or the order VWAP is 0; with executedQty = 0 the order
\* VWAP is 0, nothing is divided by zero, and the slippage is 0.
C18_NoSignal ==
    Evaluated =>
        /\ orderVWAP.den # 0 /\ marketVWAP.den # 0 /\ perf.den # 0
        /\ (marketVWAP.num = 0 \/ orderVWAP.num = 0) => perf.num = 0
        /\ live.orderExecQty = 0 => (orderVWAP.num = 0 /\ perf.num = 0)

\* nothing executed (a notional is entered all the same) while the market has a VWAP
C18_Witness ==
    /\ Evaluated
    /\ live.orderExecQty = 0
    /\ live.orderExecNotional > 0
    /\ marketVWAP.num > 0
    /\ perf.num = 0

\* C19 -- Market VWAP source priority: the market VWAP is
\* marketTurnover / currentMarketVolume when both are positive, even if a
\* manual VWAP is entered; otherwise the manual VWAP; 0 when neither.
C19_MarketVWAPSource ==
    Evaluated =>
        IF order.currentVol > 0 /\ live.marketTurnover > 0
        THEN marketVWAP.num * order.currentVol = live.marketTurnover * marketVWAP.den
        ELSE marketVWAP.num = live.marketVWAPInput * marketVWAP.den

\* advise has answered
Advised == pc = "advised"

\* C20 -- Impact score: remainingQty = max(0, orderQty - executedQty), the
\* required rate is remainingQty / max(1, expectedContVol + expectedAuctionVol)
\* and the score is round(rate * 10) clamped to 1..10: an integer r in 1..10
\* with r - 1/2 <= 10 * rate < r + 1/2 (below 3/2 for 1, from 19/2 for 10);
\* 1 when nothing remains or executedQty > orderQty, 10 when rate > 1, and
\* never smaller than the score of a smaller remainingQty.
C20_ImpactScore ==
    Advised =>
        LET rem == advice.remainingOrder
            vol == advice.expRemainingVol
            score == advice.impactScore
        IN  /\ rem = (IF order.orderQty > live.orderExecQty
                      THEN order.orderQty - live.orderExecQty ELSE 0)
            /\ vol = (IF order.expectedContVol + order.expectedAuctionVol >= 1
                      THEN order.expectedContVol + order.expectedAuctionVol ELSE 1)
            /\ advice.requiredPOV.num * vol = rem * advice.requiredPOV.den
            /\ score \in 1..10
            /\ score = 1 <=> 20 * rem < 3 * vol
            /\ score = 10 <=> 20 * rem >= 19 * vol
            /\ \A r \in 2..9 :
                  score = r <=> ((2 * r - 1) * vol <= 20 * rem /\ 20 * rem < (2 * r + 1) * vol)
            /\ (rem = 0 \/ live.orderExecQty > order.orderQty) => score = 1
            /\ rem > vol => score = 10
            /\ \A less \in 0..rem : impactScoreOf(less, vol) <= score

\* a rate of exactly 0.25: ten times it is 2.5, which rounds up to 3
C20_Witness ==
    /\ Advised
    /\ advice.remainingOrder > 0
    /\ 4 * advice.remainingOrder = advice.expRemainingVol
    /\ advice.impactScore = 3

\* C21 -- Advisory priority: whenever impactScore >= 8 the action is the
\* "reduce clip size or lean on auction" one, whatever the pacing delta; a
\* pacing action (behind, ahead) or hold is chosen only when impactScore < 8.
C21_ImpactFirst ==
    Advised =>
        /\ advice.impactScore >= 8 => advice.action = "HIGH"
        /\ advice.action \in {"BEHIND", "AHEAD", "HOLD"} => advice.impactScore < 8

\* the impact score is high while the execution is well behind the plan
C21_Witness ==
    /\ Advised
    /\ advice.impactScore >= 8
    /\ advice.shouldAccum > 0
    /\ 10 * advice.pacingDelta < -advice.shouldAccum
    /\ advice.action = "HIGH"

\* C22 -- Advisory pacing thresholds, as claimed: with impactScore < 8 the
\* action is behind pace if delta <= -10% of accumulatedSuggested, otherwise
\* ease off if delta >= +10% of it, otherwise hold steady, boundaries
\* included, for every accumulatedSuggested >= 0 including 0.
C22_ThresholdsInclusive ==
    (Advised /\ advice.impactScore < 8) =>
        advice.action =
            (IF 10 * advice.pacingDelta <= -advice.shouldAccum THEN "BEHIND"
             ELSE IF 10 * advice.pacingDelta >= advice.shouldAccum THEN "AHEAD"
             ELSE "HOLD")

\* C22 -- Advisory pacing thresholds, as the code has them: with
\* impactScore < 8 the action is behind pace if delta < -10% of the reference,
\* ease off if delta > +10% of it, otherwise hold steady -- the boundaries
\* excluded -- where the reference is accumulatedSuggested, or 1 when
\* accumulatedSuggested is 0, and delta = executedQty - accumulatedSuggested.
C22_ThresholdsStrict ==
    (Advised /\ advice.impactScore < 8) =>
        LET ref == IF advice.shouldAccum = 0 THEN 1 ELSE advice.shouldAccum
        IN  /\ advice.pacingDelta = live.orderExecQty - advice.shouldAccum
            /\ advice.action = "BEHIND" <=> 10 * advice.pacingDelta < -ref
            /\ advice.action = "AHEAD" <=> 10 * advice.pacingDelta > ref
            /\ advice.action = "HOLD" <=>
                  (10 * advice.pacingDelta >= -ref /\ 10 * advice.pacingDelta <= ref)

\* executed is short of suggested by exactly 10 percent, and the advice is to hold
C22_Witness ==
    /\ Advised
    /\ advice.impactScore < 8
    /\ advice.shouldAccum > 0
    /\ 10 * advice.pacingDelta = -advice.shouldAccum
    /\ advice.action = "HOLD"

\* the quantity the INLINE loop gave row k, before any trim (lines 296-297)
UntrimmedQty(k) ==
    applyCap(order.capMode, order.maxPart,
             FloorDiv(rows[k].expMktVol * povNum(order), povDen(order)), rows[k].expMktVol)

\* the deferred-completion trim has run: contPlanned still holds the sum of the
\* rows before it, auctionPlanned is as computed
TrimRan ==
    /\ Done
    /\ Inline
    /\ order.deferCompletion
    /\ contPlanned + auctionPlanned > order.orderQty

\* what the trim took off the rows
TrimRemoved == contPlanned - sumSuggested(rows)

\* C23 -- Tail trim: when deferCompletion is true and continuousPlanned +
\* auctionPlanned exceeds orderQty by excess, a row is reduced only after every
\* later row has reached 0, the total taken off the rows is exactly
\* min(excess, sum of the rows) -- never more than excess -- and the rows plus
\* auctionPlanned total orderQty whenever the rows held at least excess.
C23_TailTrim ==
    TrimRan =>
        LET ex == contPlanned + auctionPlanned - order.orderQty
        IN  /\ \A k \in 1..Len(rows) :
                  rows[k].suggestedQty < UntrimmedQty(k) =>
                      \A j \in (k + 1)..Len(rows) : rows[j].suggestedQty = 0
            /\ TrimRemoved = Min(ex, contPlanned)
            /\ TrimRemoved <= ex
            /\ contPlanned >= ex => sumSuggested(rows) + auctionPlanned = order.orderQty

\* the INLINE totals overshoot the order: the over-allocation handling has run
Overshoot ==
    /\ Done
    /\ Inline
    /\ contPlanned + inlineAuction(order) > order.orderQty

\* C24 -- Auction shave: when deferCompletion is false and continuousPlanned +
\* auctionPlanned exceeds orderQty by excess, auctionPlanned becomes
\* max(0, auctionPlanned - excess) and no row is changed; when deferCompletion
\* is true the handling leaves auctionPlanned as computed.
C24_AuctionShave ==
    Overshoot =>
        LET ex == contPlanned + inlineAuction(order) - order.orderQty
        IN  IF order.deferCompletion
            THEN auctionPlanned = inlineAuction(order)
            ELSE /\ auctionPlanned = Max(0, inlineAuction(order) - ex)
                 /\ \A k \in 1..Len(rows) : rows[k].suggestedQty = UntrimmedQty(k)
                 /\ contPlanned = sumSuggested(rows)

\* an overshoot without deferred completion: part of the auction quantity is shaved
C24_Witness ==
    /\ Overshoot
    /\ ~order.deferCompletion
    /\ auctionPlanned > 0
    /\ auctionPlanned < inlineAuction(order)
    /\ sumSuggested(rows) > 0

\* what is left of the continuous target after the first k rows
RemainingAfter(k) == targetContinuousQty - SumTo([j \in 1..Len(rows) |-> rows[j].suggestedQty], k)

\* C25 -- Deferred completion in OTD mode: with deferCompletion, at least two
\* slices and a continuous target > 0, the running remaining quantity is
\* strictly positive after every non-last slice; and a non-last slice that
\* would otherwise take all of remaining is cut to
\* max(0, remaining - ceil(0.05 * continuousTarget)).
C25_DeferredCompletion ==
    (Otd /\ order.deferCompletion /\ pc \in {"otd", "done"}) =>
        /\ (Len(slices) >= 2 /\ targetContinuousQty > 0) =>
              \A k \in 1..Min(Len(rows), Len(slices) - 1) : RemainingAfter(k) > 0
        /\ (pc = "otd" /\ i >= 1 /\ i <= Len(slices) - 1) =>
              LET before == remaining + rows[i].suggestedQty
                  capped == applyCap(order.capMode, order.maxPart, base, rows[i].expMktVol)
              IN  /\ before = RemainingAfter(i - 1)
                  /\ before - capped <= 0 =>
                        rows[i].suggestedQty = Max(0, before - keepBackOf(targetContinuousQty))

\* a deferred plan of three slices or more, part of the target placed in the
\* first two, the rest still remaining for the last
C25_Witness ==
    /\ Otd
    /\ order.deferCompletion
    /\ pc = "otd"
    /\ Len(slices) >= 3
    /\ i = Len(slices) - 1
    /\ rows[1].suggestedQty > 0
    /\ rows[i].suggestedQty > 0
    /\ remaining > 0

\* the suggested quantities the OTD loop (lines 256-281) gives slices k.. of the
\* order when its deferCompletion flag is dc and rem is still remaining
RECURSIVE otdTail(_, _, _)
otdTail(dc, k, rem) ==
    IF k > Len(slices) THEN <<>>
    ELSE LET b == Min(FloorW(order.curve, Len(slices), k, targetContinuousQty), rem)
             capped == applyCap(order.capMode, order.maxPart, b, Max(0, contVolPerSlice[k]))
             kept == IF dc /\ k < Len(slices) /\ rem - capped <= 0
                     THEN Max(0, rem - keepBackOf(targetContinuousQty))
                     ELSE capped
             suggested == Min(kept, rem)
         IN  <<suggested>> \o otdTail(dc, k + 1, rem - suggested)

\* C28 -- In OTD mode the deferCompletion flag has no observable effect: the
\* plan returned is the plan the same order gets with the flag the other way
\* round -- same rows, continuousPlanned and auctionPlanned -- and the keep-back
\* branch fires on a non-last slice only when remaining is already 0.
C28_DeferHasNoEffectInOtd ==
    /\ (Done /\ Otd) =>
          LET other == otdTail(~order.deferCompletion, 1, targetContinuousQty)
              otherCont == SumTo(other, Len(other))
          IN  /\ Len(rows) = Len(other)
              /\ \A k \in 1..Len(rows) : rows[k].suggestedQty = other[k]
              /\ contPlanned = otherCont
              /\ auctionPlanned =
                    otdAuction(reserveAuctionQty, targetContinuousQty, otherCont, auctionAllowed)
    /\ (Otd /\ order.deferCompletion /\ pc = "otd" /\ i >= 1 /\ i <= Len(slices) - 1) =>
          LET before == remaining + rows[i].suggestedQty
              capped == applyCap(order.capMode, order.maxPart, base, rows[i].expMktVol)
          IN  before - capped <= 0 => before = 0

\* a deferred OTD plan over several slices that places something in the first
\* slice and leaves part of the target to the auction
C28_Witness ==
    /\ Done
    /\ Otd
    /\ order.deferCompletion
    /\ Len(rows) >= 2
    /\ rows[1].suggestedQty > 0
    /\ contPlanned < targetContinuousQty

\* getPhase has answered
Phased == pc = "phased"

\* sessionStart <= sessionEnd <= auctionEnd <= talEnd
TimesOrdered ==
    /\ toMin(order.sessionStart) <= toMin(order.sessionEnd)
    /\ toMin(order.sessionEnd) <= toMin(closeTimes.auctionEnd)
    /\ toMin(closeTimes.auctionEnd) <= toMin(closeTimes.talEnd)

\* the place of a phase in the day
PhaseRank(ph) ==
    CASE ph = "PRE" -> 1 [] ph = "CONT" -> 2 [] ph = "AUCTION" -> 3 [] ph = "TAL" -> 4
      [] ph = "CLOSED" -> 5 [] OTHER -> 0

\* C30 -- Market phase progression: with sessionStart <= sessionEnd <=
\* auctionEnd <= talEnd, getPhase gives every clock value one of the five
\* phases, each exactly on its own stretch of the day (CONT exactly when
\* sessionStart <= now < sessionEnd), and as now advances the phase never
\* moves backward in the order PRE, CONT, AUCTION, TAL, CLOSED.
C30_PhaseProgression ==
    /\ []((Phased /\ TimesOrdered) =>
            /\ phase \in {"PRE", "CONT", "AUCTION", "TAL", "CLOSED"}
            /\ phase = "PRE" <=> toMin(now) < toMin(order.sessionStart)
            /\ phase = "CONT" <=>
                  (toMin(order.sessionStart) <= toMin(now) /\ toMin(now) < toMin(order.sessionEnd))
            /\ phase = "AUCTION" <=>
                  (toMin(order.sessionEnd) <= toMin(now) /\ toMin(now) < toMin(closeTimes.auctionEnd))
            /\ phase = "TAL" <=>
                  (toMin(closeTimes.auctionEnd) <= toMin(now) /\ toMin(now) < toMin(closeTimes.talEnd))
            /\ phase = "CLOSED" <=> toMin(closeTimes.talEnd) <= toMin(now))
    /\ [][(Phased /\ Phased' /\ TimesOrdered) => PhaseRank(phase) <= PhaseRank(phase')]_vars

\* the clock has reached the trade-at-last stretch of an order that has all five
C30_Witness ==
    /\ Phased
    /\ TimesOrdered
    /\ toMin(order.sessionStart) < toMin(order.sessionEnd)
    /\ toMin(order.sessionEnd) < toMin(closeTimes.auctionEnd)
    /\ phase = "TAL"

\* the cap, if any, allows no more than the whole of a volume
WithinVolume == order.capMode = "NONE" \/ order.maxPart <= 100

\* C29 -- No overshoot within the cap: in PARTICIPATION mode with non-negative
\* volumes and capMode NONE or maxPart <= 100, the quantities as first computed
\* already give continuousPlanned + auctionPlanned <= orderQty and every row's
\* suggestedQty <= its expected volume, so the over-allocation branch is never
\* entered: no excess is computed, no row is trimmed, the auction is not shaved.
C29_NoOvershootWithinCap ==
    (Inline /\ WithinVolume /\ pc \in {"trim", "done"}) =>
        /\ pc = "done"
        /\ excess = 0
        /\ contPlanned = sumSuggested(rows)
        /\ auctionPlanned = inlineAuction(order)
        /\ contPlanned + auctionPlanned <= order.orderQty
        /\ totalPlanned = contPlanned + auctionPlanned
        /\ \A k \in 1..Len(rows) :
              /\ rows[k].suggestedQty = UntrimmedQty(k)
              /\ rows[k].suggestedQty <= rows[k].expMktVol

\* a full-volume cap and a plan that takes the whole order, rows and auction both used
C29_Witness ==
    /\ Done
    /\ Inline
    /\ Pct
    /\ order.maxPart = 100
    /\ contPlanned > 0
    /\ auctionPlanned > 0
    /\ contPlanned + auctionPlanned = order.orderQty

\* the clock sample lies in row k: row.start <= now < row.end
InRow(k) == ~StrLt(now, rows[k].s) /\ StrLt(now, rows[k].e)

\* the pacing walk inside a row and the range of its result
WalkInsideRows ==
    /\ \A k \in 1..Len(rows) :
          InRow(k) =>
              acc = SumFirst(rows, k - 1)
                    + (rows[k].suggestedQty
                         * clamp(minutesBetween(rows[k].s, now), 0, rows[k].mins)) \div rows[k].mins
    /\ 0 <= acc
    /\ acc <= sumSuggested(rows)

\* C27 -- Pacing walk: accumulatedSuggested is 0 for every now <= sessionStart;
\* for now inside row k it is the sum of the rows before k plus
\* floor(suggestedQty_k * elapsed / duration), elapsed clamped to
\* [0, duration], and the rows after k add nothing; the result is between 0
\* and the sum of all rows.
C27_PacingWalk ==
    Paced =>
        /\ ~StrLt(order.sessionStart, now) => acc = 0
        /\ WalkInsideRows

\* C27 (amended) -- Pacing walk: as above, with the value 0 for every
\* now <= sessionStart only when sessionStart < sessionEnd; when sessionEnd is
\* not after sessionStart the plan's single zero-length row is counted in full
\* from sessionEnd on and the value is 0 before it.  targetAccumByNow walks
\* the same plan to the same value.
C27_PacingWalkByWindow ==
    Paced =>
        /\ (StrLt(order.sessionStart, order.sessionEnd) /\ ~StrLt(order.sessionStart, now))
              => acc = 0
        /\ ~StrLt(order.sessionStart, order.sessionEnd) =>
              acc = IF ~StrLt(now, order.sessionEnd) THEN sumSuggested(rows) ELSE 0
        /\ WalkInsideRows
        /\ targetAccumByNow(rows, order.sessionStart, now) = acc

\* the clock is part-way through the second row: the first row counted in full,
\* a share of the second that is neither nothing nor all of it
C27_Witness ==
    /\ Paced
    /\ Len(rows) >= 2
    /\ InRow(2)
    /\ rows[1].suggestedQty > 0
    /\ acc > rows[1].suggestedQty
    /\ acc < rows[1].suggestedQty + rows[2].suggestedQty

\* C26 -- Determinism and purity: the planner and the advisory functions are
\* functions of their explicit arguments: buildPlan and the calls after it
\* leave the Order unchanged, and two calls of an advisory function on the
\* same order and plan give the same advice, whatever the time of the calls.
C26_PureAndDeterministic ==
    /\ [][order' = order]_vars
    /\ [](coach.calls = 2 => coach.first = coach.second)

====
